---- MODULE Spec2Model ----
(***************************************************************************)
(* Decision-making criteria under uncertainty                              *)
(* (src/decision_making_criterions.py).                                    *)
(*                                                                         *)
(* Every function of the module is a pure numpy computation.  A call is    *)
(* one step: the inputs are drawn at Init, the step records the callee in  *)
(* `called`, its local arrays in `probabilities`, `regrets_matrix` and     *)
(* `scores`, and what it returned (or the exception it raised) in `result`.*)
(*                                                                         *)
(* Numbers.  A float64 is modelled as NaN, +inf, -inf, or the exact value  *)
(* (n/d) * H^e, where H stands for the largest finite double               *)
(* (np.finfo(float).max, what nan_to_num puts in place of +inf) and e is   *)
(* -1, 0 or 1.  Ordinary values have e = 0 and are computed exactly;       *)
(* a value of a higher magnitude class absorbs one of a lower class when   *)
(* they are added (H + 1 rounds to H, 1 + 1/H rounds to 1), anything above *)
(* H overflows to an infinity and anything below 1/H underflows to 0.      *)
(* Rounding error among ordinary values is not modelled.                   *)
(***************************************************************************)
EXTENDS Integers, Sequences, FiniteSets, TLC

VARIABLES
    alternatives,    \* N x M matrix: a sequence of N rows of M floats
    frequencies,     \* length-M vector of floats, NaN marks a missing entry
    default,         \* `default` of __frequencies_to_probabilities
    is_loss_matrix,  \* orientation flag
    alpha,           \* coefficient of hurwitz / linear combination
    beta,            \* coefficient at std, or None
    scores,          \* score vector (argument of the selector, local of a criterion)
    probabilities,   \* local of the frequency based functions
    regrets_matrix,  \* local of savage_criterion
    called,          \* the function that was called, "none" before the call
    result           \* what the call returned or raised

vars == <<alternatives, frequencies, default, is_loss_matrix, alpha, beta,
          scores, probabilities, regrets_matrix, called, result>>

----------------------------------------------------------------------------
(* float64 values *)

Abs(x) == IF x < 0 THEN -x ELSE x

RECURSIVE Gcd(_, _)
Gcd(a, b) == IF b = 0 THEN a ELSE Gcd(b, a % b)

Lcm(a, b) == (a \div Gcd(a, b)) * b

NaN == [k |-> "nan", n |-> 0, d |-> 1, e |-> 0]
PosInf == [k |-> "inf", n |-> 1, d |-> 1, e |-> 0]
NegInf == [k |-> "ninf", n |-> -1, d |-> 1, e |-> 0]

\* the value (n/d) * H^e in lowest terms, rounded to the float range
Num(n, d, e) ==
    LET g == Gcd(Abs(n), Abs(d))
        s == IF d < 0 THEN -1 ELSE 1
        nn == (s * n) \div g
        dd == (s * d) \div g
    IN  IF n = 0 \/ e < -1 THEN [k |-> "num", n |-> 0, d |-> 1, e |-> 0]
        ELSE IF e > 1 \/ (e = 1 /\ Abs(nn) > dd)
             THEN (IF nn > 0 THEN PosInf ELSE NegInf)
        ELSE [k |-> "num", n |-> nn, d |-> dd, e |-> e]

Rat(n, d) == Num(n, d, 0)
Zero == Rat(0, 1)
One == Rat(1, 1)
Half == Rat(1, 2)
FloatMax == Num(1, 1, 1)
None == [k |-> "none", n |-> 0, d |-> 1, e |-> 0]

IsNaN(x) == x.k = "nan"
IsNum(x) == x.k = "num"
IsFinite(x) == x.k = "num"
Sgn(x) == IF x.k = "nan" THEN 0 ELSE IF x.n > 0 THEN 1 ELSE IF x.n < 0 THEN -1 ELSE 0

FNeg(x) ==
    CASE x.k = "nan" -> NaN
      [] x.k = "inf" -> NegInf
      [] x.k = "ninf" -> PosInf
      [] OTHER -> [x EXCEPT !.n = -x.n]

FAbs(x) == IF Sgn(x) < 0 THEN FNeg(x) ELSE x

FAdd(x, y) ==
    IF IsNaN(x) \/ IsNaN(y) THEN NaN
    ELSE IF ~IsNum(x) /\ ~IsNum(y) THEN (IF x = y THEN x ELSE NaN)
    ELSE IF ~IsNum(x) THEN x
    ELSE IF ~IsNum(y) THEN y
    ELSE IF x.n = 0 THEN y
    ELSE IF y.n = 0 THEN x
    ELSE IF x.e > y.e THEN x
    ELSE IF x.e < y.e THEN y
    ELSE LET l == Lcm(x.d, y.d)
         IN  Num(x.n * (l \div x.d) + y.n * (l \div y.d), l, x.e)

FSub(x, y) == FAdd(x, FNeg(y))

FMul(x, y) ==
    IF IsNaN(x) \/ IsNaN(y) THEN NaN
    ELSE IF ~IsNum(x) \/ ~IsNum(y)
         THEN (IF Sgn(x) * Sgn(y) = 0 THEN NaN
               ELSE IF Sgn(x) * Sgn(y) > 0 THEN PosInf ELSE NegInf)
    ELSE LET g1 == Gcd(Abs(x.n), y.d)
             g2 == Gcd(Abs(y.n), x.d)
         IN  Num((x.n \div g1) * (y.n \div g2), (x.d \div g2) * (y.d \div g1), x.e + y.e)

FDiv(x, y) ==
    IF IsNaN(x) \/ IsNaN(y) THEN NaN
    ELSE IF ~IsNum(x) /\ ~IsNum(y) THEN NaN
    ELSE IF ~IsNum(x)
         THEN (IF Sgn(x) * (IF Sgn(y) < 0 THEN -1 ELSE 1) > 0 THEN PosInf ELSE NegInf)
    ELSE IF ~IsNum(y) THEN Zero
    ELSE IF y.n = 0
         THEN (IF x.n = 0 THEN NaN ELSE IF x.n > 0 THEN PosInf ELSE NegInf)
    ELSE FMul(x, [k |-> "num", n |-> (IF y.n < 0 THEN -y.d ELSE y.d),
                  d |-> Abs(y.n), e |-> -y.e])

\* x < y as IEEE compares: false when either side is NaN
FLess(x, y) ==
    IF IsNaN(x) \/ IsNaN(y) THEN FALSE
    ELSE IF x.k = "inf" \/ y.k = "ninf" THEN FALSE
    ELSE IF x.k = "ninf" \/ y.k = "inf" THEN TRUE
    ELSE IF Sgn(x) # Sgn(y) THEN Sgn(x) < Sgn(y)
    ELSE IF Sgn(x) = 0 THEN FALSE
    ELSE LET l == Lcm(x.d, y.d)
             lt == x.n * (l \div x.d) < y.n * (l \div y.d)
         IN  IF x.e = y.e THEN lt
             ELSE IF Sgn(x) > 0 THEN x.e < y.e ELSE x.e > y.e

FLeq(x, y) == ~IsNaN(x) /\ ~IsNaN(y) /\ ~FLess(y, x)

----------------------------------------------------------------------------
(* scores: a float a, or a + b * sqrt(v) with a, b, v ordinary values and  *)
(* v >= 0, kept symbolically so that np.sqrt is compared exactly           *)

Plain(x) == [a |-> x, b |-> Zero, v |-> Zero]

Surd(a, b, v) == IF Sgn(b) = 0 \/ Sgn(v) = 0 THEN Plain(a) ELSE [a |-> a, b |-> b, v |-> v]

\* np.sqrt of a float
SSqrt(x) ==
    IF IsNaN(x) \/ Sgn(x) < 0 THEN Plain(NaN)
    ELSE IF ~IsNum(x) THEN Plain(x)
    ELSE Surd(Zero, One, x)

\* float * score
SScale(c, s) == Surd(FMul(c, s.a), FMul(c, s.b), s.v)

\* float + score
SAddFloat(x, s) == Surd(FAdd(x, s.a), s.b, s.v)

\* sign of A + F * sqrt(u)
Sign2(A, F, u) ==
    LET sA == Sgn(A)
        sF == IF Sgn(u) = 0 THEN 0 ELSE Sgn(F)
    IN  IF sF = 0 THEN sA
        ELSE IF sA = 0 \/ sA = sF THEN sF
        ELSE sA * Sgn(FSub(FMul(A, A), FMul(FMul(F, F), u)))

\* score / float
SDivFloat(s, y) ==
    IF Sgn(s.b) = 0 \/ IsNaN(y) THEN Plain(FDiv(s.a, y))
    ELSE IF ~IsNum(y) THEN Plain(Zero)
    ELSE IF Sgn(y) = 0
         THEN (IF Sign2(s.a, s.b, s.v) > 0 THEN Plain(PosInf)
               ELSE IF Sign2(s.a, s.b, s.v) < 0 THEN Plain(NegInf)
               ELSE Plain(NaN))
    ELSE Surd(FDiv(s.a, y), FDiv(s.b, y), s.v)

SIsNaN(s) == IsNaN(s.a)

\* sign of A + B * sqrt(v) + C * sqrt(w)
Sign3(A, B, v, C, w) ==
    LET sB == IF Sgn(v) = 0 THEN 0 ELSE Sgn(B)
        sC == IF Sgn(w) = 0 THEN 0 ELSE Sgn(C)
        B2v == FMul(FMul(B, B), v)
        C2w == FMul(FMul(C, C), w)
        sY == IF sB = 0 THEN sC
              ELSE IF sC = 0 \/ sB = sC THEN sB
              ELSE sB * Sgn(FSub(B2v, C2w))
        sA == Sgn(A)
    IN  IF sY = 0 THEN sA
        ELSE IF sA = 0 \/ sA = sY THEN sY
        ELSE sA * Sign2(FSub(FSub(FMul(A, A), B2v), C2w),
                        FNeg(FMul(Rat(2, 1), FMul(B, C))), FMul(v, w))

\* s < t as IEEE compares
SLess(s, t) ==
    IF SIsNaN(s) \/ SIsNaN(t) THEN FALSE
    ELSE IF Sgn(s.b) = 0 /\ Sgn(t.b) = 0 THEN FLess(s.a, t.a)
    ELSE Sign3(FSub(s.a, t.a), s.b, s.v, FNeg(t.b), t.v) < 0

----------------------------------------------------------------------------
(* results *)

Returned(i) == [ok |-> TRUE, index |-> i, error |-> "", value |-> <<>>]
ReturnedValue(v) == [ok |-> TRUE, index |-> -1, error |-> "", value |-> v]
Raised(e) == [ok |-> FALSE, index |-> -1, error |-> e, value |-> <<>>]
NoResult == [ok |-> FALSE, index |-> -1, error |-> "not called", value |-> <<>>]

----------------------------------------------------------------------------
(* numpy reductions *)

\* the scan of np.argmin over positions i..Len(s): (best, its position) so far
\* faulty variant of ArgMinScan: a plain `<` scan, which steps over NaN
RECURSIVE ArgMinScanPlainLess(_, _, _)
ArgMinScanPlainLess(s, i, at) ==
    IF i > Len(s) THEN at
    ELSE IF SLess(s[i], s[at]) THEN ArgMinScanPlainLess(s, i + 1, i)
    ELSE ArgMinScanPlainLess(s, i + 1, at)

RECURSIVE ArgMinScan(_, _, _)
ArgMinScan(s, i, at) ==
    IF i > Len(s) \/ SIsNaN(s[at]) THEN at
    ELSE IF SLess(s[i], s[at]) \/ SIsNaN(s[i]) THEN ArgMinScan(s, i + 1, i)
    ELSE ArgMinScan(s, i + 1, at)

RECURSIVE ArgMaxScan(_, _, _)
ArgMaxScan(s, i, at) ==
    IF i > Len(s) \/ SIsNaN(s[at]) THEN at
    ELSE IF SLess(s[at], s[i]) \/ SIsNaN(s[i]) THEN ArgMaxScan(s, i + 1, i)
    ELSE ArgMaxScan(s, i + 1, at)

\* faulty variant of argmin: the position counted from 1
argmin_one_based(s) ==
    IF Len(s) = 0 THEN Raised("ValueError") ELSE Returned(ArgMinScan(s, 2, 1))

\* np.argmin / np.argmax: 0-based, ValueError on an empty sequence
argmin(s) ==
    IF Len(s) = 0 THEN Raised("ValueError") ELSE Returned(ArgMinScan(s, 2, 1) - 1)

argmax(s) ==
    IF Len(s) = 0 THEN Raised("ValueError") ELSE Returned(ArgMaxScan(s, 2, 1) - 1)

\* faulty variant of find_best_alternative: the orientations exchanged
find_best_alternative_exchanged(sc, loss) == IF loss THEN argmax(sc) ELSE argmin(sc)

find_best_alternative(sc, loss) == IF loss THEN argmin(sc) ELSE argmax(sc)


\* left fold of a float sequence
RECURSIVE FSumFrom(_, _, _)
FSumFrom(x, i, acc) == IF i > Len(x) THEN acc ELSE FSumFrom(x, i + 1, FAdd(acc, x[i]))

\* np.sum
FSum(x) == FSumFrom(x, 1, Zero)

FMax2(x, y) == IF IsNaN(x) \/ IsNaN(y) THEN NaN ELSE IF FLess(x, y) THEN y ELSE x
FMin2(x, y) == IF IsNaN(x) \/ IsNaN(y) THEN NaN ELSE IF FLess(y, x) THEN y ELSE x

RECURSIVE FMaxFrom(_, _, _)
FMaxFrom(x, i, acc) == IF i > Len(x) THEN acc ELSE FMaxFrom(x, i + 1, FMax2(acc, x[i]))

RECURSIVE FMinFrom(_, _, _)
FMinFrom(x, i, acc) == IF i > Len(x) THEN acc ELSE FMinFrom(x, i + 1, FMin2(acc, x[i]))

\* np.max / np.min of a non-empty vector
FMax(x) == FMaxFrom(x, 2, x[1])
FMin(x) == FMinFrom(x, 2, x[1])

NCols(A) == IF Len(A) = 0 THEN 0 ELSE Len(A[1])
Column(A, j) == [i \in 1..Len(A) |-> A[i][j]]

\* np.max(A, axis=1), np.min(A, axis=1), np.mean(A, axis=1)
MaxAxis1(A) == [i \in 1..Len(A) |-> FMax(A[i])]
MinAxis1(A) == [i \in 1..Len(A) |-> FMin(A[i])]
MeanAxis1(A) == [i \in 1..Len(A) |-> FDiv(FSum(A[i]), Rat(Len(A[i]), 1))]

\* np.max(A, axis=0), np.min(A, axis=0) of a matrix with at least one row
MaxAxis0(A) == [j \in 1..NCols(A) |-> FMax(Column(A, j))]
MinAxis0(A) == [j \in 1..NCols(A) |-> FMin(Column(A, j))]

\* np.dot(A, p) and A ** 2
Dot(A, p) == [i \in 1..Len(A) |-> FSum([j \in 1..Len(p) |-> FMul(A[i][j], p[j])])]
Squared(A) == [i \in 1..Len(A) |-> [j \in 1..Len(A[i]) |-> FMul(A[i][j], A[i][j])]]

Plains(x) == [i \in 1..Len(x) |-> Plain(x[i])]

----------------------------------------------------------------------------
(* the criteria *)

laplace_scores(A) == Plains(MeanAxis1(A))

laplace_criterion(A, loss) == find_best_alternative(laplace_scores(A), loss)

wald_scores(A, loss) == IF loss THEN Plains(MaxAxis1(A)) ELSE Plains(MinAxis1(A))

\* faulty variant of wald_criterion: the best case of each alternative
\* instead of the worst
wald_criterion_best_case(A, loss) ==
    IF loss THEN argmin(Plains(MinAxis1(A))) ELSE argmax(Plains(MaxAxis1(A)))

wald_criterion(A, loss) ==
    IF loss THEN argmin(wald_scores(A, loss)) ELSE argmax(wald_scores(A, loss))

\* the regrets matrix of a matrix with at least one row
regrets(A, loss) ==
    IF loss
    THEN [i \in 1..Len(A) |-> [j \in 1..Len(A[i]) |-> FSub(A[i][j], MinAxis0(A)[j])]]
    ELSE [i \in 1..Len(A) |-> [j \in 1..Len(A[i]) |-> FSub(MaxAxis0(A)[j], A[i][j])]]

\* faulty variant of savage_criterion: the orientation handed on to wald
savage_criterion_oriented(A, loss) ==
    IF Len(A) = 0 THEN Raised("ValueError") ELSE wald_criterion(regrets(A, loss), loss)

\* np.min / np.max along axis 0 of a matrix without rows raises ValueError
savage_criterion(A, loss) ==
    IF Len(A) = 0 THEN Raised("ValueError") ELSE wald_criterion(regrets(A, loss), TRUE)

hurwitz_scores(A, a) ==
    [i \in 1..Len(A) |->
        Plain(FAdd(FMul(FSub(One, a), MaxAxis1(A)[i]), FMul(a, MinAxis1(A)[i])))]

hurwitz_criterion(A, loss, a) == find_best_alternative(hurwitz_scores(A, a), loss)

\* np.nan_to_num(f, nan=dflt): NaN becomes dflt, the infinities the extreme
\* finite floats
nan_to_num(f, dflt) ==
    [j \in 1..Len(f) |->
        IF IsNaN(f[j]) THEN dflt
        ELSE IF f[j].k = "inf" THEN FloatMax
        ELSE IF f[j].k = "ninf" THEN FNeg(FloatMax)
        ELSE f[j]]

frequencies_invalid(p) ==
    \/ \E j \in 1..Len(p) : IsNaN(p[j])
    \/ \E j \in 1..Len(p) : FLess(p[j], Zero)
    \/ FLeq(FSum(p), Zero)

\* faulty variant of frequencies_to_probabilities: no division by the sum
frequencies_to_probabilities_unnormalized(f, dflt) ==
    LET p == nan_to_num(f, dflt)
    IN  IF frequencies_invalid(p) THEN Raised("ValueError") ELSE ReturnedValue(p)

frequencies_to_probabilities(f, dflt) ==
    LET p == nan_to_num(f, dflt)
    IN  IF frequencies_invalid(p) THEN Raised("ValueError")
        ELSE ReturnedValue([j \in 1..Len(p) |-> FDiv(p[j], FSum(p))])

expectation(A, p) == Dot(A, p)
variance(A, p) ==
    [i \in 1..Len(A) |-> FSub(Dot(Squared(A), p)[i], FMul(Dot(A, p)[i], Dot(A, p)[i]))]

expectation_criterion(A, f, loss) ==
    LET r == frequencies_to_probabilities(f, Zero)
    IN  IF ~r.ok THEN r ELSE find_best_alternative(Plains(expectation(A, r.value)), loss)

std_criterion(A, f) ==
    LET r == frequencies_to_probabilities(f, Zero)
    IN  IF ~r.ok THEN r ELSE argmin(Plains(variance(A, r.value)))

variation_scores(A, p) ==
    [i \in 1..Len(A) |-> SDivFloat(SSqrt(variance(A, p)[i]), FAbs(expectation(A, p)[i]))]

variation_coefficient_criterion(A, f) ==
    LET r == frequencies_to_probabilities(f, Zero)
    IN  IF ~r.ok THEN r ELSE argmin(variation_scores(A, r.value))

\* faulty variant of resolve_beta: `beta or (1 - alpha)`, a supplied 0 lost
resolve_beta_falsy(a, b) == IF b = None \/ b = Zero THEN FSub(One, a) ELSE b

\* b of linear_combination_mean_std_criterion
resolve_beta(a, b) == IF b = None THEN FSub(One, a) ELSE b

linear_combination_scores(A, p, loss, a, b) ==
    [i \in 1..Len(A) |->
        SAddFloat(FMul(a, expectation(A, p)[i]),
                  SScale(IF loss THEN resolve_beta(a, b) ELSE FNeg(resolve_beta(a, b)),
                         SSqrt(variance(A, p)[i])))]

linear_combination_mean_std_criterion(A, f, loss, a, b) ==
    LET r == frequencies_to_probabilities(f, Zero)
    IN  IF ~r.ok THEN r
        ELSE IF loss THEN argmin(linear_combination_scores(A, r.value, loss, a, b))
        ELSE argmax(linear_combination_scores(A, r.value, loss, a, b))


----------------------------------------------------------------------------
(* bounds and input sets *)

MaxN == 2          \* alternatives (rows) of a matrix: 0..MaxN
MaxFreq == 2       \* frequencies are NaN, -1 or 0..MaxFreq
MaxLen == 3        \* length of a score vector handed to the selector: 0..MaxLen
MaxScore == 2      \* its entries: -MaxScore..MaxScore
MaxFreqLen == 3    \* length of a vector handed to the normalizer: 0..MaxFreqLen

ScenarioCounts == {1, 2}
Entries == {Rat(-1, 1), Zero, One}
Matrices(m) == UNION {[1..n -> [1..m -> Entries]] : n \in 0..MaxN}
FreqVals == {NaN, Rat(-1, 1)} \cup {Rat(k, 1) : k \in 0..MaxFreq}
AllFreqVals == FreqVals \cup {PosInf, NegInf}
Defaults == {Zero, One, Rat(-1, 1), NaN}
Alphas == {Zero, Half, One}
Betas == {None, Zero, One}
Scales == {Half, Rat(2, 1), Rat(3, 1)}
ScoreVectors == UNION {[1..n -> {Plain(Rat(k, 1)) : k \in (-MaxScore)..MaxScore}] : n \in 0..MaxLen}

\* parameter defaults of the signatures
DefaultAlpha == Half
DefaultBeta == None
DefaultFill == Zero

NotCalled ==
    /\ called = "none"
    /\ result = NoResult
    /\ probabilities = <<>>
    /\ regrets_matrix = <<>>

----------------------------------------------------------------------------
(* initial states: the arguments of the call *)

\* a score vector and an orientation, for the selector
InitSelect ==
    /\ scores \in ScoreVectors
    /\ is_loss_matrix \in BOOLEAN
    /\ alternatives = <<>> /\ frequencies = <<>> /\ default = DefaultFill
    /\ alpha = DefaultAlpha /\ beta = DefaultBeta
    /\ NotCalled

\* a frequencies vector and a default, for the normalizer
InitNormalize ==
    /\ frequencies \in UNION {[1..m -> AllFreqVals] : m \in 0..MaxFreqLen}
    /\ default \in Defaults
    /\ alternatives = <<>> /\ is_loss_matrix = TRUE /\ scores = <<>>
    /\ alpha = DefaultAlpha /\ beta = DefaultBeta
    /\ NotCalled

\* a matrix, an orientation and alpha, for the criteria without frequencies
InitMatrix ==
    /\ \E m \in ScenarioCounts : alternatives \in Matrices(m)
    /\ is_loss_matrix \in BOOLEAN
    /\ alpha \in Alphas
    /\ frequencies = <<>> /\ default = DefaultFill /\ beta = DefaultBeta
    /\ scores = <<>>
    /\ NotCalled

\* a matrix, frequencies and an orientation, alpha and beta left at their defaults
Init ==
    /\ \E m \in ScenarioCounts :
          /\ alternatives \in Matrices(m)
          /\ frequencies \in [1..m -> FreqVals]
    /\ is_loss_matrix \in BOOLEAN
    /\ alpha = DefaultAlpha /\ beta = DefaultBeta /\ default = DefaultFill
    /\ scores = <<>>
    /\ NotCalled

\* a matrix of at most two rows, frequencies, an orientation, alpha and beta
InitCombination ==
    /\ \E m \in ScenarioCounts :
          /\ alternatives \in UNION {[1..n -> [1..m -> Entries]] : n \in {0, 1, 2}}
          /\ frequencies \in [1..m -> FreqVals]
    /\ is_loss_matrix \in BOOLEAN
    /\ alpha \in Alphas
    /\ beta \in Betas
    /\ default = DefaultFill
    /\ scores = <<>>
    /\ NotCalled

----------------------------------------------------------------------------
(* one action per function *)

inputs == <<alternatives, frequencies, default, is_loss_matrix, alpha, beta>>

FindBestAlternative ==
    /\ called = "none"
    /\ called' = "find_best_alternative"
    /\ result' = find_best_alternative(scores, is_loss_matrix)
    /\ UNCHANGED <<inputs, scores, probabilities, regrets_matrix>>

Laplace ==
    /\ called = "none"
    /\ called' = "laplace_criterion"
    /\ scores' = laplace_scores(alternatives)
    /\ result' = laplace_criterion(alternatives, is_loss_matrix)
    /\ UNCHANGED <<inputs, probabilities, regrets_matrix>>

Wald ==
    /\ called = "none"
    /\ called' = "wald_criterion"
    /\ scores' = wald_scores(alternatives, is_loss_matrix)
    /\ result' = wald_criterion(alternatives, is_loss_matrix)
    /\ UNCHANGED <<inputs, probabilities, regrets_matrix>>

Savage ==
    /\ called = "none"
    /\ called' = "savage_criterion"
    /\ regrets_matrix' = IF Len(alternatives) = 0 THEN <<>>
                         ELSE regrets(alternatives, is_loss_matrix)
    /\ scores' = IF Len(alternatives) = 0 THEN <<>>
                 ELSE wald_scores(regrets(alternatives, is_loss_matrix), TRUE)
    /\ result' = savage_criterion(alternatives, is_loss_matrix)
    /\ UNCHANGED <<inputs, probabilities>>

Hurwitz ==
    /\ called = "none"
    /\ called' = "hurwitz_criterion"
    /\ scores' = hurwitz_scores(alternatives, alpha)
    /\ result' = hurwitz_criterion(alternatives, is_loss_matrix, alpha)
    /\ UNCHANGED <<inputs, probabilities, regrets_matrix>>

FrequenciesToProbabilities ==
    /\ called = "none"
    /\ called' = "frequencies_to_probabilities"
    /\ probabilities' = nan_to_num(frequencies, default)
    /\ result' = frequencies_to_probabilities(frequencies, default)
    /\ UNCHANGED <<inputs, scores, regrets_matrix>>

\* the locals of a frequency based criterion whose normalization succeeded
Normalized == frequencies_to_probabilities(frequencies, DefaultFill)

Expectation ==
    /\ called = "none"
    /\ called' = "expectation_criterion"
    /\ probabilities' = Normalized.value
    /\ scores' = IF Normalized.ok
                 THEN Plains(expectation(alternatives, Normalized.value)) ELSE <<>>
    /\ result' = expectation_criterion(alternatives, frequencies, is_loss_matrix)
    /\ UNCHANGED <<inputs, regrets_matrix>>

Std ==
    /\ called = "none"
    /\ called' = "std_criterion"
    /\ probabilities' = Normalized.value
    /\ scores' = IF Normalized.ok
                 THEN Plains(variance(alternatives, Normalized.value)) ELSE <<>>
    /\ result' = std_criterion(alternatives, frequencies)
    /\ UNCHANGED <<inputs, regrets_matrix>>

VariationCoefficient ==
    /\ called = "none"
    /\ called' = "variation_coefficient_criterion"
    /\ probabilities' = Normalized.value
    /\ scores' = IF Normalized.ok
                 THEN variation_scores(alternatives, Normalized.value) ELSE <<>>
    /\ result' = variation_coefficient_criterion(alternatives, frequencies)
    /\ UNCHANGED <<inputs, regrets_matrix>>

LinearCombinationMeanStd ==
    /\ called = "none"
    /\ called' = "linear_combination_mean_std_criterion"
    /\ probabilities' = Normalized.value
    /\ scores' = IF Normalized.ok
                 THEN linear_combination_scores(alternatives, Normalized.value,
                                                is_loss_matrix, alpha, beta)
                 ELSE <<>>
    /\ result' = linear_combination_mean_std_criterion(alternatives, frequencies,
                                                       is_loss_matrix, alpha, beta)
    /\ UNCHANGED <<inputs, regrets_matrix>>

----------------------------------------------------------------------------
(* specifications *)

NextSelect == FindBestAlternative
SpecSelect == InitSelect /\ [][NextSelect]_vars

NextNormalize == FrequenciesToProbabilities
SpecNormalize == InitNormalize /\ [][NextNormalize]_vars

NextMatrix == Laplace \/ Wald \/ Savage \/ Hurwitz
SpecMatrix == InitMatrix /\ [][NextMatrix]_vars

Next ==
    \/ Laplace
    \/ Wald
    \/ Savage
    \/ Hurwitz
    \/ Expectation
    \/ Std
    \/ VariationCoefficient
    \/ LinearCombinationMeanStd
Spec == Init /\ [][Next]_vars

NextCombination == FrequenciesToProbabilities \/ VariationCoefficient \/ LinearCombinationMeanStd
SpecCombination == InitCombination /\ [][NextCombination]_vars


----------------------------------------------------------------------------
(* properties *)

\* scores compare equal
SEq(s, t) == ~SIsNaN(s) /\ ~SIsNaN(t) /\ ~SLess(s, t) /\ ~SLess(t, s)

\* s is preferable to t, or as good, in the orientation
AsGood(s, t, loss) == IF loss THEN ~SLess(t, s) ELSE ~SLess(s, t)

\* i is the lowest position of sc holding its minimum (loss) or maximum
FirstBest(sc, i, loss) ==
    /\ i \in 1..Len(sc)
    /\ \A k \in 1..Len(sc) : AsGood(sc[i], sc[k], loss)
    /\ \A k \in 1..(i - 1) : ~AsGood(sc[k], sc[i], loss)

\* C1: for a non-empty score vector the selector returns an index in
\* [0, len(scores)) whose score is the minimum (is_loss_matrix) or the maximum
\* (otherwise) of the vector, the smallest index where that extremum occurs.
C1_SelectorReturnsFirstExtremum ==
    (called = "find_best_alternative" /\ Len(scores) > 0) =>
        /\ result.ok
        /\ result.index \in 0..(Len(scores) - 1)
        /\ FirstBest(scores, result.index + 1, is_loss_matrix)

\* a maximum that occurs twice, after a smaller score, was selected at its first place
C1_Witness ==
    /\ called = "find_best_alternative"
    /\ ~is_loss_matrix
    /\ Len(scores) = 3
    /\ SLess(scores[1], scores[2])
    /\ SEq(scores[2], scores[3])
    /\ result.index = 1

\* the frequencies with each missing entry replaced by the default
Substituted(f, dflt) == [j \in 1..Len(f) |-> IF IsNaN(f[j]) THEN dflt ELSE f[j]]

\* C2: the normalizer fails whenever, after the substitution of the default,
\* an entry is non-finite or negative or the entries sum to at most 0.
C2_InvalidFrequenciesRejected ==
    LET sub == Substituted(frequencies, default)
    IN  (/\ called = "frequencies_to_probabilities"
         /\ \/ \E j \in 1..Len(sub) : ~IsFinite(sub[j])
            \/ \E j \in 1..Len(sub) : FLess(sub[j], Zero)
            \/ FLeq(FSum(sub), Zero))
        => ~result.ok

\* C3: a vector the normalizer returns has the length of its input, its
\* entries are non-negative, each is the substituted entry divided by the sum
\* of the substituted entries, and they sum to 1.
C3_ProbabilitiesSumToOne ==
    LET sub == Substituted(frequencies, default)
    IN  (called = "frequencies_to_probabilities" /\ result.ok) =>
            /\ Len(result.value) = Len(frequencies)
            /\ \A j \in 1..Len(sub) :
                  /\ FLeq(Zero, result.value[j])
                  /\ result.value[j] = FDiv(sub[j], FSum(sub))
            /\ FSum(result.value) = One


\* c * f
Rescaled(c, f) == [j \in 1..Len(f) |-> FMul(c, f[j])]

\* C4: for valid frequencies f and c > 0 the normalizer returns for c*f what
\* it returns for f, and variation_coefficient and mean_std_combo return for
\* c*f the index they return for f, whatever the matrix, orientation, alpha
\* and beta.
C4_RescalingInvariant ==
    \A c \in Scales :
        LET g == Rescaled(c, frequencies)
        IN  result.ok =>
              /\ called = "frequencies_to_probabilities" =>
                    /\ frequencies_to_probabilities(g, default) = result
                    /\ (\A j \in 1..Len(frequencies) : ~IsNaN(frequencies[j])) =>
                          \A d \in Defaults : frequencies_to_probabilities(g, d) = result
              /\ called = "variation_coefficient_criterion" =>
                    variation_coefficient_criterion(alternatives, g) = result
              /\ called = "linear_combination_mean_std_criterion" =>
                    linear_combination_mean_std_criterion(
                        alternatives, g, is_loss_matrix, alpha, beta) = result

\* unequal positive frequencies, and the second of two alternatives selected
C4_Witness ==
    /\ called = "variation_coefficient_criterion"
    /\ frequencies = <<One, Rat(2, 1)>>
    /\ Len(alternatives) = 2
    /\ result.ok
    /\ result.index = 1

\* x is the largest (smallest) entry of the non-empty vector row
IsMaxOf(row, x) == (\E j \in 1..Len(row) : row[j] = x) /\ \A j \in 1..Len(row) : FLeq(row[j], x)
IsMinOf(row, x) == (\E j \in 1..Len(row) : row[j] = x) /\ \A j \in 1..Len(row) : FLeq(x, row[j])
WorstLoss(A, i) == CHOOSE x \in {A[i][j] : j \in 1..Len(A[i])} : IsMaxOf(A[i], x)
WorstProfit(A, i) == CHOOSE x \in {A[i][j] : j \in 1..Len(A[i])} : IsMinOf(A[i], x)

\* i is the lowest row of A whose largest entry is smallest
IsMinimax(A, i) ==
    /\ i \in 1..Len(A)
    /\ \A k \in 1..Len(A) : FLeq(WorstLoss(A, i), WorstLoss(A, k))
    /\ \A k \in 1..(i - 1) : FLess(WorstLoss(A, i), WorstLoss(A, k))

\* i is the lowest row of A whose smallest entry is largest
IsMaximin(A, i) ==
    /\ i \in 1..Len(A)
    /\ \A k \in 1..Len(A) : FLeq(WorstProfit(A, k), WorstProfit(A, i))
    /\ \A k \in 1..(i - 1) : FLess(WorstProfit(A, k), WorstProfit(A, i))

\* C5: on an N x M matrix, N >= 1 and M >= 1, wald returns the lowest index
\* of an alternative whose maximum over the scenarios is smallest when
\* is_loss_matrix (minimax), and the lowest index of one whose minimum over
\* the scenarios is largest otherwise (maximin).
C5_WaldMinimaxMaximin ==
    (called = "wald_criterion" /\ Len(alternatives) >= 1) =>
        /\ result.ok
        /\ IF is_loss_matrix
           THEN IsMinimax(alternatives, result.index + 1)
           ELSE IsMaximin(alternatives, result.index + 1)

\* maximin picked the second alternative where minimax would pick the first
C5_Witness ==
    /\ called = "wald_criterion"
    /\ ~is_loss_matrix
    /\ Len(alternatives) = 2
    /\ result.index = 1
    /\ IsMinimax(alternatives, 1)

\* C6: the regrets savage builds are a(i,j) - column_min(j) in loss framing
\* and column_max(j) - a(i,j) in profit framing, every one of them is >= 0,
\* and savage returns the lowest index minimizing the row maximum of the
\* regrets, whatever is_loss_matrix.
C6_SavageMinimaxRegret ==
    (called = "savage_criterion" /\ Len(alternatives) >= 1) =>
        /\ Len(regrets_matrix) = Len(alternatives)
        /\ \A i \in 1..Len(alternatives) : \A j \in 1..Len(alternatives[i]) :
              /\ FLeq(Zero, regrets_matrix[i][j])
              /\ \E x \in {alternatives[k][j] : k \in 1..Len(alternatives)} :
                    /\ IF is_loss_matrix
                       THEN IsMinOf(Column(alternatives, j), x)
                       ELSE IsMaxOf(Column(alternatives, j), x)
                    /\ regrets_matrix[i][j] =
                          IF is_loss_matrix THEN FSub(alternatives[i][j], x)
                          ELSE FSub(x, alternatives[i][j])
        /\ result.ok
        /\ IsMinimax(regrets_matrix, result.index + 1)

\* profit framing, a positive regret, and the second alternative selected
C6_Witness ==
    /\ called = "savage_criterion"
    /\ ~is_loss_matrix
    /\ Len(alternatives) = 2
    /\ \E j \in 1..Len(alternatives[1]) : FLess(Zero, regrets_matrix[1][j])
    /\ result.index = 1

\* C7: mean_std_combo uses beta = 1 - alpha when beta is not supplied and the
\* supplied beta otherwise (a supplied 0 included), and returns what the
\* selector returns, for the same orientation, on the scores
\* alpha*expectation + beta*std (loss) or alpha*expectation - beta*std (profit).
C7_LinearCombination ==
    LET b == IF beta = None THEN FSub(One, alpha) ELSE beta
        E == expectation(alternatives, probabilities)
        V == variance(alternatives, probabilities)
        sc == [i \in 1..Len(alternatives) |->
                 SAddFloat(FMul(alpha, E[i]),
                           SScale(IF is_loss_matrix THEN b ELSE FNeg(b), SSqrt(V[i])))]
    IN  (called = "linear_combination_mean_std_criterion" /\ Normalized.ok) =>
            /\ result = find_best_alternative(sc, is_loss_matrix)
            /\ Len(alternatives) >= 1 =>
                  FirstBest(sc, result.index + 1, is_loss_matrix)

\* beta supplied as 0 selects another alternative than the default 1 - alpha would
C7_Witness ==
    /\ called = "linear_combination_mean_std_criterion"
    /\ beta = Zero
    /\ result.ok
    /\ result.index = 1
    /\ linear_combination_mean_std_criterion(
           alternatives, frequencies, is_loss_matrix, alpha, None).index = 0

\* C8: the index a criterion returns is in [0, N), N the number of rows of
\* the alternatives matrix; with N = 0 no criterion returns.
C8_IndexInRange ==
    called # "none" =>
        /\ result.ok => result.index \in 0..(Len(alternatives) - 1)
        /\ Len(alternatives) = 0 => ~result.ok

\* the last of at least two alternatives was returned
C8_Witness ==
    /\ called = "std_criterion"
    /\ Len(alternatives) >= 2
    /\ result.ok
    /\ result.index = Len(alternatives) - 1

\* C9: hurwicz with alpha = 1 returns what wald returns on the same matrix
\* with the same is_loss_matrix, and with alpha = 0 it selects on each
\* alternative's best case for the orientation (the smallest entry of the row
\* in loss framing, the largest in profit framing).
C9_HurwiczDegenerates ==
    (called = "hurwitz_criterion" /\ Len(alternatives) >= 1) =>
        /\ alpha = One => result = wald_criterion(alternatives, is_loss_matrix)
        /\ alpha = Zero =>
              FirstBest([i \in 1..Len(alternatives) |->
                            Plain(IF is_loss_matrix THEN WorstProfit(alternatives, i)
                                  ELSE WorstLoss(alternatives, i))],
                        result.index + 1, is_loss_matrix)

\* a score is finite
SIsFinite(s) == IsFinite(s.a)

\* the score of an alternative whose expectation is 0: +inf when its
\* variance is positive, NaN when it is 0
ZeroExpectationScores ==
    \A i \in 1..Len(alternatives) :
        Sgn(expectation(alternatives, probabilities)[i]) = 0 =>
            IF Sgn(variance(alternatives, probabilities)[i]) > 0
            THEN scores[i] = Plain(PosInf)
            ELSE SIsNaN(scores[i])

\* C10 as stated: in variation_coefficient an alternative of expectation 0
\* has score +inf (positive variance) or NaN (variance 0), and when some
\* alternative has a finite score the lowest index with the minimal finite
\* score is returned.
C10_FiniteScorePreferred ==
    (called = "variation_coefficient_criterion" /\ result.ok) =>
        /\ ZeroExpectationScores
        /\ (\E i \in 1..Len(scores) : SIsFinite(scores[i])) =>
              /\ SIsFinite(scores[result.index + 1])
              /\ \A k \in 1..Len(scores) :
                    SIsFinite(scores[k]) => ~SLess(scores[k], scores[result.index + 1])
              /\ \A k \in 1..result.index :
                    SIsFinite(scores[k]) => SLess(scores[result.index + 1], scores[k])

\* C10, amended: an alternative of expectation 0 has score +inf (positive
\* variance) or NaN (variance 0); when some score is NaN the lowest index
\* with a NaN score is returned, whatever the other scores are; otherwise
\* the lowest index with the minimal score is returned, so that a +inf score
\* is selected only when no score is finite.
C10_NaNScoreSelectedFirst ==
    (called = "variation_coefficient_criterion" /\ result.ok) =>
        /\ ZeroExpectationScores
        /\ IF \E i \in 1..Len(scores) : SIsNaN(scores[i])
           THEN /\ SIsNaN(scores[result.index + 1])
                /\ \A k \in 1..result.index : ~SIsNaN(scores[k])
           ELSE /\ FirstBest(scores, result.index + 1, TRUE)
                /\ (\E i \in 1..Len(scores) : SIsFinite(scores[i])) =>
                      SIsFinite(scores[result.index + 1])

\* a NaN score was selected after a finite one
C10_Witness ==
    /\ called = "variation_coefficient_criterion"
    /\ result.ok
    /\ result.index = 1
    /\ SIsFinite(scores[1])
    /\ SIsNaN(scores[2])


====
